---- MODULE Spec2Model ----
(***************************************************************************)
(* Model of the DJI footage pipeline of src/process_footage.py: the       *)
(* sequence assembler (get_footage_sequences), the recording namer        *)
(* (format_dji_filename), the merge stage (merge_sequences, merge_mp4)    *)
(* and the stabilize stage (stabilize_footage, stabilize_file).           *)
(*                                                                         *)
(* File names are sequences of one-character strings, so that split,      *)
(* slicing, endswith, lower and sorting are computed as Python computes   *)
(* them.  File sizes are counted in units of 10,000,000 bytes (TLC's      *)
(* integers are 32 bits wide and the thresholds are 3,760,000,000 and     *)
(* 4,000,000,000 bytes); the comparisons are those of the source.         *)
(***************************************************************************)
EXTENDS Integers, Sequences, FiniteSets, TLC

VARIABLES
    pc,                 \* position of the program
    srcDir,             \* source folder: file name -> size
    midDir,             \* merged folder: file name -> content
    outDir,             \* stabilized folder: file name -> "empty" | "full"
    files,              \* get_footage_sequences: its argument
    i,                  \* get_footage_sequences: position of the for loop
    parts,              \* get_footage_sequences: the in-progress buffer
    footage_files,      \* get_footage_sequences: the sequences emitted so far
    footage_sequences,  \* merge_sequences: the assembled sequences
    idx,                \* merge_sequences: position of the for loop
    outcomes,           \* merge_sequences: what happened to each sequence
    engineCalls,        \* invocations of the merge engine, in order
    renames,            \* os.rename calls, in order
    source_files,       \* stabilize_footage: the listed files
    sidx,               \* stabilize_footage: position of the for loop
    stabOutcomes,       \* stabilize_footage: what happened to each file
    stabCalls,          \* invocations of the stabilization engine and what each did, in order
    abortReason,        \* the exception that ended the run, or "none"
    missing,            \* what the run cannot find: "source_folder", "mp4-merge", "gyroflow"
    prior,              \* the logs of the earlier runs of merge_sequences over these folders
    args_overwrite      \* the overwrite flag the run passes to stabilize_file / stabilize_one

vars == <<pc, srcDir, midDir, outDir, files, i, parts, footage_files,
          footage_sequences, idx, outcomes, engineCalls, renames,
          source_files, sidx, stabOutcomes, stabCalls, abortReason,
          missing, prior, args_overwrite>>

asmVars == <<files, i, parts, footage_files>>
mergeVars == <<footage_sequences, idx, outcomes, engineCalls, renames>>
stabVars == <<source_files, sidx, stabOutcomes, stabCalls>>
runVars == <<missing, prior, args_overwrite>>

-----------------------------------------------------------------------------
(* Bounds of the model *)

\* most files in the source folder of a run of the merge stage alone
MaxFiles == 4
\* most files in the source folder of a run of the whole pipeline
MaxRunFiles == 2
\* most files in the merged folder handed to the stabilize stage alone
MaxStabFiles == 2
\* most files handed to the assembler alone
MaxAsmFiles == 4
\* most files already in the merged folder when the merge stage starts
MaxPreMid == 2
\* most files already in the merged folder when a run of the whole pipeline starts
MaxRunPreMid == 0
\* most files already in the stabilized folder when a run starts
MaxPreOut == 1
\* most consecutive runs of the merge stage over the same folders
MaxRuns == 2

-----------------------------------------------------------------------------
(* Characters and strings *)

\* the characters of the model's file names, in code-point order
Alphabet == <<" ", ".", "0", "1", "2", "3", "4", "5", "6", "8", "A", "B", "C",
              "M", "P", "Z", "_", "m", "p", "t">>

\* ord(c), up to an order-preserving renumbering
Ord(c) == CHOOSE k \in 1..Len(Alphabet) : Alphabet[k] = c

\* str.lower() on one character
LowerChar(c) ==
    CASE c = "A" -> "a" [] c = "B" -> "b" [] c = "C" -> "c" [] c = "M" -> "m"
      [] c = "P" -> "p" [] c = "Z" -> "z" [] OTHER -> c

\* str.lower()
lower(s) == [k \in 1..Len(s) |-> LowerChar(s[k])]

\* str.endswith(suffix)
endswith(s, suffix) ==
    /\ Len(suffix) <= Len(s)
    /\ SubSeq(s, Len(s) - Len(suffix) + 1, Len(s)) = suffix

\* Python's s[a:b] for 0 <= a <= b: out-of-range bounds are clipped, not errors
Slice(s, a, b) ==
    LET hi == IF b < Len(s) THEN b ELSE Len(s)
    IN  IF a + 1 > hi THEN <<>> ELSE SubSeq(s, a + 1, hi)

RECURSIVE SplitFrom(_, _, _, _)
SplitFrom(s, d, k, cur) ==
    IF k > Len(s) THEN <<cur>>
    ELSE IF s[k] = d THEN <<cur>> \o SplitFrom(s, d, k + 1, <<>>)
    ELSE SplitFrom(s, d, k + 1, Append(cur, s[k]))

\* str.split(d): the fields between the delimiters
split(s, d) == SplitFrom(s, d, 1, <<>>)

RECURSIVE StrLessFrom(_, _, _)
StrLessFrom(a, b, k) ==
    IF k > Len(a) THEN k <= Len(b)
    ELSE IF k > Len(b) THEN FALSE
    ELSE IF a[k] = b[k] THEN StrLessFrom(a, b, k + 1)
    ELSE Ord(a[k]) < Ord(b[k])

\* a < b for Python strings
StrLess(a, b) == StrLessFrom(a, b, 1)

RECURSIVE SortNames(_)
\* sorted(S) for a set of distinct strings
SortNames(S) ==
    IF S = {} THEN <<>>
    ELSE LET m == CHOOSE x \in S : \A y \in S \ {x} : StrLess(x, y)
         IN  <<m>> \o SortNames(S \ {m})

Range(s) == {s[k] : k \in 1..Len(s)}

RECURSIVE Orders(_)
\* every order in which a directory listing can return the names of S
Orders(S) ==
    IF S = {} THEN {<<>>}
    ELSE UNION {{<<x>> \o t : t \in Orders(S \ {x})} : x \in S}

-----------------------------------------------------------------------------
(* The files of the model *)

ExtMP4 == <<".", "M", "P", "4">>
ExtLowerMp4 == <<".", "m", "p", "4">>
ExtTmp == <<".", "t", "m", "p">>

Stamp1 == <<"2", "0", "2", "5", "0", "1", "0", "1", "1", "2", "0", "0", "0", "0">>
Stamp2 == <<"2", "0", "2", "5", "0", "6", "1", "5", "0", "8", "3", "0", "0", "0">>
StampShort == <<"2", "0", "2", "5">>

\* A_20250101120000_0001.MP4 and A_20250101120000_0002.MP4
NameA1 == <<"A", "_">> \o Stamp1 \o <<"_", "0", "0", "0", "1">> \o ExtMP4
NameA2 == <<"A", "_">> \o Stamp1 \o <<"_", "0", "0", "0", "2">> \o ExtMP4
\* B.MP4: no delimiter, so no timestamp field
NameNoField == <<"B">> \o ExtMP4
\* B_20250615083000_0001.MP4
NameB1 == <<"B", "_">> \o Stamp2 \o <<"_", "0", "0", "0", "1">> \o ExtMP4
\* C_2025_0001.MP4: a timestamp field of four digits
NameShort == <<"C", "_">> \o StampShort \o <<"_", "0", "0", "0", "1">> \o ExtMP4
\* Z.mp4: not a candidate segment (lower-case extension)
NameLower == <<"Z">> \o ExtLowerMp4

Names == {NameA1, NameA2, NameNoField, NameB1, NameShort, NameLower}

-----------------------------------------------------------------------------
(* Recording namer *)

\* format_dji_filename: the identity 'YYYY.MM.DD HH.MM' cut from the second
\* '_'-separated field; split('_')[1] raises IndexError when there is no such
\* field, and the slices never raise
format_dji_filename(dji_filename) ==
    LET fields == split(dji_filename, "_")
    IN  IF Len(fields) < 2
        THEN [raised |-> TRUE, value |-> <<>>]
        ELSE LET timestamp_str == fields[2]
                 year == Slice(timestamp_str, 0, 4)
                 month == Slice(timestamp_str, 4, 6)
                 day == Slice(timestamp_str, 6, 8)
                 hour == Slice(timestamp_str, 8, 10)
                 minute == Slice(timestamp_str, 10, 12)
             IN  [raised |-> FALSE,
                  value |-> year \o <<".">> \o month \o <<".">> \o day
                            \o <<" ">> \o hour \o <<".">> \o minute]

\* format_dji_filename(seq[0]) + ".mp4"
output_filename_of(first) == format_dji_filename(first).value \o ExtLowerMp4

\* the file names the merge stage can produce from the model's files
OutNames ==
    {output_filename_of(n) : n \in {m \in Names : ~format_dji_filename(m).raised}}

-----------------------------------------------------------------------------
(* Segment classifier and sequence assembler *)

\* ~3.7GB and ~4.0GB, in units of 10,000,000 bytes
split_limit == 376
max_limit == 400

\* the sizes the model gives to the files of a pipeline run: one per verdict,
\* the thresholds themselves among them
Sizes == {split_limit, max_limit, max_limit + 1}
\* the sizes given to the files handed to the assembler alone
AsmSizes == {0, split_limit - 1, split_limit, split_limit + 1, max_limit, max_limit + 1}

\* classify with the first test written >= : a file of exactly max_limit is skipped
classify_ge_max(file_size) ==
    IF file_size >= max_limit THEN "Ignore"
    ELSE IF file_size > split_limit THEN "Continuation"
    ELSE "Terminal"

\* the verdict of the size tests in the loop of get_footage_sequences
classify(file_size) ==
    IF file_size > max_limit THEN "Ignore"
    ELSE IF file_size > split_limit THEN "Continuation"
    ELSE "Terminal"

\* list_mp4_files: the names ending in '.MP4', sorted
list_mp4_files(folder) == SortNames({f \in DOMAIN folder : endswith(f, ExtMP4)})

\* the things a run looks up and may not find
Lookups == {"source_folder", "mp4-merge", "gyroflow"}

\* os.listdir(source_folder), shutil.which("mp4-merge") with its fallbacks,
\* find_gyroflow_binary(): the lookup succeeds
Found(thing) == thing \notin missing

\* line 107: os.listdir(folder) of list_mp4_files raises FileNotFoundError,
\* which nothing catches
SourceMissing ==
    /\ pc = "main"
    /\ ~Found("source_folder")
    /\ pc' = "aborted"
    /\ abortReason' = "FileNotFoundError"
    /\ UNCHANGED <<runVars, srcDir, midDir, outDir, asmVars, mergeVars, stabVars>>

\* merge_sequences lines 107-108: list the source folder and enter
\* get_footage_sequences
ListSource ==
    /\ pc = "main"
    /\ Found("source_folder")
    /\ files' = list_mp4_files(srcDir)
    /\ i' = 1
    /\ parts' = <<>>
    /\ footage_files' = <<>>
    /\ pc' = "assemble"
    /\ UNCHANGED <<runVars, srcDir, midDir, outDir, mergeVars, stabVars, abortReason>>

\* AssembleFile with 'parts = []' before the 'continue' of an ignored file
AssembleFile_ignore_resets(file, file_size, buf, emitted) ==
    IF classify(file_size) = "Ignore"
    THEN [parts |-> <<>>, footage_files |-> emitted]
    ELSE IF classify(file_size) = "Continuation"
    THEN [parts |-> Append(buf, file), footage_files |-> emitted]
    ELSE [parts |-> <<>>, footage_files |-> Append(emitted, Append(buf, file))]

\* AssembleFile without 'parts = []' after a sequence is emitted
AssembleFile_no_reset(file, file_size, buf, emitted) ==
    IF classify(file_size) = "Ignore"
    THEN [parts |-> buf, footage_files |-> emitted]
    ELSE IF classify(file_size) = "Continuation"
    THEN [parts |-> Append(buf, file), footage_files |-> emitted]
    ELSE [parts |-> Append(buf, file),
          footage_files |-> Append(emitted, Append(buf, file))]

\* the effect of one iteration of the for loop on (parts, footage_files)
AssembleFile(file, file_size, buf, emitted) ==
    IF classify(file_size) = "Ignore"
    THEN [parts |-> buf, footage_files |-> emitted]
    ELSE IF classify(file_size) = "Continuation"
    THEN [parts |-> Append(buf, file), footage_files |-> emitted]
    ELSE [parts |-> <<>>, footage_files |-> Append(emitted, Append(buf, file))]

\* one iteration of the for loop of get_footage_sequences
AssembleStep ==
    /\ pc = "assemble"
    /\ i <= Len(files)
    /\ LET file == files[i]
           file_size == srcDir[file]
           r == AssembleFile(file, file_size, parts, footage_files)
       IN  /\ parts' = r.parts
           /\ footage_files' = r.footage_files
    /\ i' = i + 1
    /\ UNCHANGED <<runVars, pc, files, srcDir, midDir, outDir, mergeVars, stabVars,
                   abortReason>>

\* return footage_files: the leftover buffer is dropped
AssembleReturn ==
    /\ pc = "assemble"
    /\ i > Len(files)
    /\ footage_sequences' = footage_files
    /\ idx' = 1
    /\ pc' = "merge"
    /\ UNCHANGED <<runVars, srcDir, midDir, outDir, asmVars, outcomes, engineCalls,
                   renames, stabVars, abortReason>>

\* the for loop of get_footage_sequences run over the list fs, from buffer buf
\* and emitted list emitted: the buffer and the emitted list it ends with
RECURSIVE AssembleList(_, _, _)
AssembleList(fs, buf, emitted) ==
    IF fs = <<>>
    THEN [parts |-> buf, footage_files |-> emitted]
    ELSE LET r == AssembleFile(Head(fs), srcDir[Head(fs)], buf, emitted)
         IN  AssembleList(Tail(fs), r.parts, r.footage_files)

\* get_footage_sequences(fs): the sequences it returns
get_footage_sequences(fs) == AssembleList(fs, <<>>, <<>>).footage_files

-----------------------------------------------------------------------------
(* Merge stage *)

Remove(dir, gone) == [f \in DOMAIN dir \ gone |-> dir[f]]

\* os.path.join(folder, name)
Path(folder, name) == <<folder, name>>

\* the sequence the for loop of merge_sequences is at
CurSeq == footage_sequences[idx]
CurName == format_dji_filename(CurSeq[1])
CurOut == output_filename_of(CurSeq[1])

InMergeLoop == pc = "merge" /\ idx <= Len(footage_sequences)

Outcome(seq, out, result) == [seq |-> seq, out |-> out, result |-> result]

\* line 116: format_dji_filename(seq[0]) raises IndexError, which nothing
\* catches: merge_sequences and the run end there
MergeNameError ==
    /\ InMergeLoop
    /\ CurName.raised
    /\ pc' = "aborted"
    /\ abortReason' = "IndexError"
    /\ UNCHANGED <<runVars, srcDir, midDir, outDir, asmVars, mergeVars, stabVars>>

\* lines 121-123: os.path.exists(output_path), continue
MergeSkip ==
    /\ InMergeLoop
    /\ ~CurName.raised
    /\ CurOut \in DOMAIN midDir
    /\ outcomes' = Append(outcomes, Outcome(CurSeq, CurOut, "Skipped"))
    /\ idx' = idx + 1
    /\ UNCHANGED <<runVars, pc, srcDir, midDir, outDir, asmVars, footage_sequences,
                   engineCalls, renames, stabVars, abortReason>>

\* MergeMove without the os.path.exists test before it
MergeMove_unchecked ==
    /\ InMergeLoop
    /\ ~CurName.raised
    /\ Len(CurSeq) = 1
    /\ srcDir' = Remove(srcDir, {CurSeq[1]})
    /\ midDir' = (CurOut :> [kind |-> "segment", from |-> CurSeq]) @@ midDir
    /\ renames' = Append(renames, [from |-> Path("source", CurSeq[1]),
                                   to |-> Path("merged", CurOut)])
    /\ outcomes' = Append(outcomes, Outcome(CurSeq, CurOut, "Moved"))
    /\ idx' = idx + 1
    /\ UNCHANGED <<runVars, pc, outDir, asmVars, footage_sequences, engineCalls,
                   stabVars, abortReason>>

\* lines 130-134: a single file is renamed into the merged folder
MergeMove ==
    /\ InMergeLoop
    /\ ~CurName.raised
    /\ CurOut \notin DOMAIN midDir
    /\ Len(CurSeq) = 1
    /\ srcDir' = Remove(srcDir, {CurSeq[1]})
    /\ midDir' = (CurOut :> [kind |-> "segment", from |-> CurSeq]) @@ midDir
    /\ renames' = Append(renames, [from |-> Path("source", CurSeq[1]),
                                   to |-> Path("merged", CurOut)])
    /\ outcomes' = Append(outcomes, Outcome(CurSeq, CurOut, "Moved"))
    /\ idx' = idx + 1
    /\ UNCHANGED <<runVars, pc, outDir, asmVars, footage_sequences, engineCalls,
                   stabVars, abortReason>>

\* line 138, merge_mp4 raising FileNotFoundError (lines 50-62): neither
\* shutil.which nor the two cargo paths give the tool; the lookup is made when
\* the first sequence of several files without an output is reached, and
\* nothing catches the exception
MergeToolMissing ==
    /\ InMergeLoop
    /\ ~CurName.raised
    /\ CurOut \notin DOMAIN midDir
    /\ Len(CurSeq) # 1
    /\ ~Found("mp4-merge")
    /\ pc' = "aborted"
    /\ abortReason' = "FileNotFoundError"
    /\ UNCHANGED <<runVars, srcDir, midDir, outDir, asmVars, mergeVars, stabVars>>

\* EngineCall with the input files in descending order
EngineCall_reversed(seq, out) ==
    [inputs |-> [k \in 1..Len(seq) |-> Path("source", seq[Len(seq) + 1 - k])],
     out |-> Path("merged", out)]

\* the arguments merge_mp4 passes to the engine (line 64)
EngineCall(seq, out) ==
    [inputs |-> [k \in 1..Len(seq) |-> Path("source", seq[k])],
     out |-> Path("merged", out)]

\* MergeEngineOk without the single-file branch before it
MergeEngineOk_any_length ==
    /\ InMergeLoop
    /\ ~CurName.raised
    /\ CurOut \notin DOMAIN midDir
    /\ Found("mp4-merge")
    /\ engineCalls' = Append(engineCalls, EngineCall(CurSeq, CurOut))
    /\ midDir' = (CurOut :> [kind |-> "merged", from |-> CurSeq]) @@ midDir
    /\ outcomes' = Append(outcomes, Outcome(CurSeq, CurOut, "Merged"))
    /\ idx' = idx + 1
    /\ UNCHANGED <<runVars, pc, srcDir, outDir, asmVars, footage_sequences, renames,
                   stabVars, abortReason>>

\* line 138, merge_mp4 returning True: the engine exits 0 and its output is
\* the reassembly of the inputs
MergeEngineOk ==
    /\ InMergeLoop
    /\ ~CurName.raised
    /\ CurOut \notin DOMAIN midDir
    /\ Len(CurSeq) # 1
    /\ Found("mp4-merge")
    /\ engineCalls' = Append(engineCalls, EngineCall(CurSeq, CurOut))
    /\ midDir' = (CurOut :> [kind |-> "merged", from |-> CurSeq]) @@ midDir
    /\ outcomes' = Append(outcomes, Outcome(CurSeq, CurOut, "Merged"))
    /\ idx' = idx + 1
    /\ UNCHANGED <<runVars, pc, srcDir, outDir, asmVars, footage_sequences, renames,
                   stabVars, abortReason>>

\* line 138, merge_mp4 returning False: CalledProcessError is caught (lines
\* 70-73); the engine may or may not have left a partial file, which nothing
\* removes
MergeEngineFail ==
    /\ InMergeLoop
    /\ ~CurName.raised
    /\ CurOut \notin DOMAIN midDir
    /\ Len(CurSeq) # 1
    /\ Found("mp4-merge")
    /\ engineCalls' = Append(engineCalls, EngineCall(CurSeq, CurOut))
    /\ \E partial \in BOOLEAN :
          midDir' = IF partial
                    THEN (CurOut :> [kind |-> "partial", from |-> CurSeq]) @@ midDir
                    ELSE midDir
    /\ outcomes' = Append(outcomes, Outcome(CurSeq, CurOut, "Failed"))
    /\ idx' = idx + 1
    /\ UNCHANGED <<runVars, pc, srcDir, outDir, asmVars, footage_sequences, renames,
                   stabVars, abortReason>>

\* MergeReturn leaving the for loop before its last sequence
MergeReturn_early ==
    /\ pc = "merge"
    /\ pc' = "stabilize_list"
    /\ UNCHANGED <<runVars, srcDir, midDir, outDir, asmVars, mergeVars, stabVars,
                   abortReason>>

\* merge_sequences returns; __main__ goes on to stabilize_footage (line 285)
MergeReturn ==
    /\ pc = "merge"
    /\ idx > Len(footage_sequences)
    /\ pc' = "stabilize_list"
    /\ UNCHANGED <<runVars, srcDir, midDir, outDir, asmVars, mergeVars, stabVars,
                   abortReason>>

\* what a run of merge_sequences did, as the next run finds it logged
RunLog == [outcomes |-> outcomes, engineCalls |-> engineCalls,
           renames |-> renames, abortReason |-> abortReason]

\* the script is started again after merge_sequences has returned or was ended
\* by an exception: the folders and the installed tools are as the run left
\* them, and merge_sequences (lines 105-138) starts afresh
MergeAgain ==
    /\ pc \in {"stabilize_list", "aborted"}
    /\ Len(prior) < MaxRuns - 1
    /\ prior' = Append(prior, RunLog)
    /\ pc' = "main"
    /\ abortReason' = "none"
    /\ files' = <<>>
    /\ i' = 1
    /\ parts' = <<>>
    /\ footage_files' = <<>>
    /\ footage_sequences' = <<>>
    /\ idx' = 1
    /\ outcomes' = <<>>
    /\ engineCalls' = <<>>
    /\ renames' = <<>>
    /\ UNCHANGED <<missing, args_overwrite, srcDir, midDir, outDir, stabVars>>

-----------------------------------------------------------------------------
(* Stabilize stage *)

\* what one run of the stabilization engine can do: its exit status, and the
\* state in which it leaves the output file and the '<output>.tmp' artifact
EngineRuns ==
    [exit : {"ok", "error"},
     out : {"absent", "empty", "full"},
     tmp : {"absent", "empty", "full"}]

\* the folder with file name in state st ("absent", "empty" or "full")
SetFile(dir, name, st) ==
    IF st = "absent" THEN Remove(dir, {name})
    ELSE (name :> st) @@ Remove(dir, {name})

\* output_path.with_suffix(output_path.suffix + ".tmp")
tmp_output_path(name) == name \o ExtTmp

\* not output_path.exists() or output_path.stat().st_size == 0
NoValidOutput(dir, name) == name \notin DOMAIN dir \/ dir[name] = "empty"

\* stabilize_file testing only output_path.exists() after the engine has run
stabilize_file_no_size_test(dir, name, overwrite, run) ==
    LET tmp == tmp_output_path(name)
    IN  IF name \in DOMAIN dir /\ ~overwrite
        THEN [dir |-> dir, invoked |-> FALSE, raised |-> "none"]
        ELSE LET cleared == IF overwrite THEN Remove(dir, {name, tmp}) ELSE dir
                 after == SetFile(SetFile(cleared, name, run.out), tmp, run.tmp)
             IN  IF run.exit = "error"
                 THEN [dir |-> after, invoked |-> TRUE,
                       raised |-> "CalledProcessError"]
                 ELSE IF name \notin DOMAIN after
                 THEN [dir |-> IF tmp \in DOMAIN after /\ after[tmp] = "empty"
                               THEN Remove(after, {tmp})
                               ELSE after,
                       invoked |-> TRUE, raised |-> "RuntimeError"]
                 ELSE [dir |-> after, invoked |-> TRUE, raised |-> "none"]

\* stabilize_file: the folder it leaves, whether it invoked the engine, and
\* the exception it raised ("none" when it returned)
stabilize_file(dir, name, overwrite, run) ==
    LET tmp == tmp_output_path(name)
    IN  IF name \in DOMAIN dir /\ ~overwrite
        THEN [dir |-> dir, invoked |-> FALSE, raised |-> "none"]
        ELSE LET cleared == IF overwrite THEN Remove(dir, {name, tmp}) ELSE dir
                 after == SetFile(SetFile(cleared, name, run.out), tmp, run.tmp)
             IN  IF run.exit = "error"
                 THEN [dir |-> after, invoked |-> TRUE,
                       raised |-> "CalledProcessError"]
                 ELSE IF NoValidOutput(after, name)
                 THEN [dir |-> IF tmp \in DOMAIN after /\ after[tmp] = "empty"
                               THEN Remove(after, {tmp})
                               ELSE after,
                       invoked |-> TRUE, raised |-> "RuntimeError"]
                 ELSE [dir |-> after, invoked |-> TRUE, raised |-> "none"]

\* the files lines 243-245 list: the '.mp4' files of the merged folder, in
\* any order
Listings(dir) == Orders({f \in DOMAIN dir : endswith(lower(f), ExtLowerMp4)})

\* line 252: find_gyroflow_binary() raises FileNotFoundError (lines 151-164)
\* after the merged folder was listed and before the loop; nothing catches it
GyroflowMissing ==
    /\ pc = "stabilize_list"
    /\ ~Found("gyroflow")
    /\ source_files' \in Listings(midDir)
    /\ pc' = "aborted"
    /\ abortReason' = "FileNotFoundError"
    /\ UNCHANGED <<runVars, srcDir, midDir, outDir, asmVars, mergeVars, sidx,
                   stabOutcomes, stabCalls>>

\* StabilizeList keeping the names that end in '.MP4' as list_mp4_files does
StabilizeList_upper_case ==
    /\ pc = "stabilize_list"
    /\ Found("gyroflow")
    /\ source_files' \in Orders({f \in DOMAIN midDir : endswith(f, ExtMP4)})
    /\ sidx' = 1
    /\ pc' = "stabilize"
    /\ UNCHANGED <<runVars, srcDir, midDir, outDir, asmVars, mergeVars, stabOutcomes,
                   stabCalls, abortReason>>

\* lines 243-254: the '.mp4' files of the merged folder, in listing order,
\* and the stabilization engine is found
StabilizeList ==
    /\ pc = "stabilize_list"
    /\ Found("gyroflow")
    /\ source_files' \in Listings(midDir)
    /\ sidx' = 1
    /\ pc' = "stabilize"
    /\ UNCHANGED <<runVars, srcDir, midDir, outDir, asmVars, mergeVars, stabOutcomes,
                   stabCalls, abortReason>>

InStabLoop == pc = "stabilize" /\ sidx <= Len(source_files)
CurFile == source_files[sidx]

StabOutcome(file, result) == [file |-> file, result |-> result]

\* StabilizeSkip unlinking the '.tmp' artifact of the file it skips
StabilizeSkip_unlinks_tmp ==
    /\ InStabLoop
    /\ CurFile \in DOMAIN outDir
    /\ outDir' = Remove(outDir, {tmp_output_path(CurFile)})
    /\ stabOutcomes' = Append(stabOutcomes, StabOutcome(CurFile, "Skipped"))
    /\ sidx' = sidx + 1
    /\ UNCHANGED <<runVars, pc, srcDir, midDir, asmVars, mergeVars, source_files,
                   stabCalls, abortReason>>

\* lines 259-261: (target_dir / filename).exists(), continue
StabilizeSkip ==
    /\ InStabLoop
    /\ CurFile \in DOMAIN outDir
    /\ stabOutcomes' = Append(stabOutcomes, StabOutcome(CurFile, "Skipped"))
    /\ sidx' = sidx + 1
    /\ UNCHANGED <<runVars, pc, srcDir, midDir, outDir, asmVars, mergeVars,
                   source_files, stabCalls, abortReason>>

\* lines 263-270: stabilize_file returns normally
StabilizeOk ==
    /\ InStabLoop
    /\ CurFile \notin DOMAIN outDir
    /\ \E run \in EngineRuns :
          LET r == stabilize_file(outDir, CurFile, FALSE, run)
          IN  /\ r.raised = "none"
              /\ outDir' = r.dir
              /\ stabCalls' = Append(stabCalls, [file |-> CurFile, run |-> run])
    /\ stabOutcomes' = Append(stabOutcomes, StabOutcome(CurFile, "Stabilized"))
    /\ sidx' = sidx + 1
    /\ UNCHANGED <<runVars, pc, srcDir, midDir, asmVars, mergeVars, source_files,
                   abortReason>>

\* lines 263-270: stabilize_file raises (CalledProcessError from
\* subprocess.run, or RuntimeError after the output check); stabilize_footage
\* catches nothing, so the exception ends the loop and the run
StabilizeRaise ==
    /\ InStabLoop
    /\ CurFile \notin DOMAIN outDir
    /\ \E run \in EngineRuns :
          LET r == stabilize_file(outDir, CurFile, FALSE, run)
          IN  /\ r.raised # "none"
              /\ outDir' = r.dir
              /\ abortReason' = r.raised
              /\ stabOutcomes' =
                    Append(stabOutcomes,
                           StabOutcome(CurFile,
                                       IF r.raised = "RuntimeError"
                                       THEN "Failed(IncompleteOutput)"
                                       ELSE "Failed(EngineError)"))
              /\ stabCalls' = Append(stabCalls, [file |-> CurFile, run |-> run])
    /\ pc' = "aborted"
    /\ UNCHANGED <<runVars, srcDir, midDir, asmVars, mergeVars, source_files, sidx>>

\* stabilize_footage returns; __main__ prints the summary
StabilizeReturn ==
    /\ pc = "stabilize"
    /\ sidx > Len(source_files)
    /\ pc' = "done"
    /\ UNCHANGED <<runVars, srcDir, midDir, outDir, asmVars, mergeVars, stabVars,
                   abortReason>>

-----------------------------------------------------------------------------
(* The stand-alone stabilizer, src/stabilye.py; its source folder is midDir, *)
(* its target folder outDir                                                  *)

\* stabilize_one of stabilye.py: the folder it leaves, whether it invoked the
\* engine, and the exception it raised ("none" when it returned)
stabilize_one(dir, name, overwrite_flag, run) ==
    LET output_path == name
        tmp == tmp_output_path(output_path)
    IN  IF output_path \in DOMAIN dir /\ ~overwrite_flag
        THEN [dir |-> dir, invoked |-> FALSE, raised |-> "none"]
        ELSE LET cleared == IF overwrite_flag
                            THEN Remove(dir, {output_path, tmp})
                            ELSE dir
                 after == SetFile(SetFile(cleared, output_path, run.out), tmp, run.tmp)
             IN  IF run.exit = "error"
                 THEN [dir |-> after, invoked |-> TRUE,
                       raised |-> "CalledProcessError"]
                 ELSE IF NoValidOutput(after, output_path)
                 THEN [dir |-> IF tmp \in DOMAIN after /\ after[tmp] = "empty"
                               THEN Remove(after, {tmp})
                               ELSE after,
                       invoked |-> TRUE, raised |-> "RuntimeError"]
                 ELSE [dir |-> after, invoked |-> TRUE, raised |-> "none"]

\* main, lines 162-165: the source folder is not a directory (SystemExit) or
\* _find_gyroflow_binary() raises FileNotFoundError, before anything is listed
StabilyeLookupFails ==
    /\ pc = "stabilye_main"
    /\ ~Found("source_folder") \/ ~Found("gyroflow")
    /\ pc' = "aborted"
    /\ abortReason' = IF ~Found("source_folder") THEN "SystemExit"
                      ELSE "FileNotFoundError"
    /\ UNCHANGED <<runVars, srcDir, midDir, outDir, asmVars, mergeVars, stabVars>>

\* main, lines 162-174: the '.mp4' files of the source folder, sorted
StabilyeList ==
    /\ pc = "stabilye_main"
    /\ Found("source_folder")
    /\ Found("gyroflow")
    /\ source_files' =
          SortNames({f \in DOMAIN midDir : endswith(lower(f), ExtLowerMp4)})
    /\ sidx' = 1
    /\ pc' = "stabilye_loop"
    /\ UNCHANGED <<runVars, srcDir, midDir, outDir, asmVars, mergeVars, stabOutcomes,
                   stabCalls, abortReason>>

InStabilyeLoop == pc = "stabilye_loop" /\ sidx <= Len(source_files)

\* main, lines 182-191: stabilize_one returns, having skipped the file or
\* having run the engine
StabilizeOneReturns ==
    /\ InStabilyeLoop
    /\ \E run \in EngineRuns :
          LET r == stabilize_one(outDir, CurFile, args_overwrite, run)
          IN  /\ r.raised = "none"
              /\ outDir' = r.dir
              /\ stabCalls' = IF r.invoked
                              THEN Append(stabCalls, [file |-> CurFile, run |-> run])
                              ELSE stabCalls
              /\ stabOutcomes' =
                    Append(stabOutcomes,
                           StabOutcome(CurFile, IF r.invoked THEN "Stabilized"
                                                ELSE "Skipped"))
    /\ sidx' = sidx + 1
    /\ UNCHANGED <<runVars, pc, srcDir, midDir, asmVars, mergeVars, source_files,
                   abortReason>>

\* main, lines 182-191: stabilize_one raises, which main does not catch
StabilizeOneRaises ==
    /\ InStabilyeLoop
    /\ \E run \in EngineRuns :
          LET r == stabilize_one(outDir, CurFile, args_overwrite, run)
          IN  /\ r.raised # "none"
              /\ outDir' = r.dir
              /\ abortReason' = r.raised
              /\ stabCalls' = Append(stabCalls, [file |-> CurFile, run |-> run])
              /\ stabOutcomes' =
                    Append(stabOutcomes,
                           StabOutcome(CurFile,
                                       IF r.raised = "RuntimeError"
                                       THEN "Failed(IncompleteOutput)"
                                       ELSE "Failed(EngineError)"))
    /\ pc' = "aborted"
    /\ UNCHANGED <<runVars, srcDir, midDir, asmVars, mergeVars, source_files, sidx>>

\* main returns 0 (line 193)
StabilyeReturn ==
    /\ pc = "stabilye_loop"
    /\ sidx > Len(source_files)
    /\ pc' = "done"
    /\ UNCHANGED <<runVars, srcDir, midDir, outDir, asmVars, mergeVars, stabVars,
                   abortReason>>

-----------------------------------------------------------------------------
(* Specifications *)

SmallSubsets(S, n) == {T \in SUBSET S : Cardinality(T) <= n}

\* the folders with at most n of the files S, each in one of the states in V
Folders(S, n, V) == UNION {[T -> V] : T \in SmallSubsets(S, n)}

\* a file that was in the merged folder before the run
OldContent == [kind |-> "old", from |-> <<>>]

InitLocals ==
    /\ pc = "main"
    /\ files = <<>>
    /\ i = 1
    /\ parts = <<>>
    /\ footage_files = <<>>
    /\ footage_sequences = <<>>
    /\ idx = 1
    /\ outcomes = <<>>
    /\ engineCalls = <<>>
    /\ renames = <<>>
    /\ source_files = <<>>
    /\ sidx = 1
    /\ stabOutcomes = <<>>
    /\ stabCalls = <<>>
    /\ abortReason = "none"
    /\ prior = <<>>
    /\ args_overwrite = FALSE

\* the start of __main__: any source folder, and merged and stabilized folders
\* holding what an earlier run may have left
Init ==
    /\ InitLocals
    /\ srcDir \in Folders(Names, MaxRunFiles, Sizes)
    /\ midDir \in Folders(OutNames, MaxRunPreMid, {OldContent})
    /\ outDir \in Folders(OutNames, MaxPreOut, {"empty", "full"})
    /\ missing \in SUBSET Lookups
    /\ ~Found("source_folder") => srcDir = <<>>

Next ==
    \/ SourceMissing
    \/ ListSource
    \/ AssembleStep
    \/ AssembleReturn
    \/ MergeNameError
    \/ MergeSkip
    \/ MergeMove
    \/ MergeEngineOk
    \/ MergeEngineFail
    \/ MergeToolMissing
    \/ MergeReturn
    \/ GyroflowMissing
    \/ StabilizeList
    \/ StabilizeSkip
    \/ StabilizeOk
    \/ StabilizeRaise
    \/ StabilizeReturn

Spec == Init /\ [][Next]_vars

\* get_footage_sequences alone, on longer lists and more sizes
InitAsm ==
    /\ InitLocals
    /\ srcDir \in Folders(Names, MaxAsmFiles, AsmSizes)
    /\ midDir = <<>>
    /\ outDir = <<>>
    /\ missing = {}

NextAsm ==
    \/ ListSource
    \/ AssembleStep
    \/ AssembleReturn

SpecAsm == InitAsm /\ [][NextAsm]_vars

\* merge_sequences alone, on larger source folders
InitMerge ==
    /\ InitLocals
    /\ srcDir \in Folders(Names, MaxFiles, Sizes)
    /\ midDir \in Folders(OutNames, MaxPreMid, {OldContent})
    /\ outDir = <<>>
    /\ missing \in SUBSET {"source_folder", "mp4-merge"}
    /\ ~Found("source_folder") => srcDir = <<>>

NextMerge ==
    \/ SourceMissing
    \/ ListSource
    \/ AssembleStep
    \/ AssembleReturn
    \/ MergeNameError
    \/ MergeSkip
    \/ MergeMove
    \/ MergeEngineOk
    \/ MergeEngineFail
    \/ MergeToolMissing
    \/ MergeReturn

SpecMerge == InitMerge /\ [][NextMerge]_vars

\* consecutive runs of merge_sequences over the same folders
NextRerun ==
    \/ NextMerge
    \/ MergeAgain

SpecRerun == InitMerge /\ [][NextRerun]_vars

\* the files a merged folder handed to stabilize_footage can hold: merged
\* recordings, an upper-case '.MP4', and a '.tmp' file that is not listed
StabNames == OutNames \cup {NameNoField, NameLower, tmp_output_path(NameLower)}

\* the files of the stabilized folder that belong to the files of folder dir
OutputsOf(dir) == DOMAIN dir \cup {tmp_output_path(f) : f \in DOMAIN dir}

\* the stabilized folders an earlier run can have left for at most n files of
\* folder dir: for each of them an output, a '.tmp' artifact, or both, each
\* empty or not
LeftOutputs(dir, n) ==
    {d \in Folders(OutputsOf(dir), 2 * n, {"empty", "full"}) :
        \E T \in SmallSubsets(DOMAIN dir, n) :
            DOMAIN d \subseteq T \cup {tmp_output_path(f) : f \in T}}

\* stabilize_footage alone, on any merged folder and any stabilized folder
InitStab ==
    /\ InitLocals!2
    /\ InitLocals!3
    /\ InitLocals!4
    /\ InitLocals!5
    /\ InitLocals!6
    /\ InitLocals!7
    /\ InitLocals!8
    /\ InitLocals!9
    /\ InitLocals!10
    /\ InitLocals!11
    /\ InitLocals!12
    /\ InitLocals!13
    /\ InitLocals!14
    /\ InitLocals!15
    /\ InitLocals!16
    /\ InitLocals!17
    /\ pc = "stabilize_list"
    /\ srcDir = <<>>
    /\ midDir \in Folders(StabNames, MaxStabFiles, {OldContent})
    /\ outDir \in LeftOutputs(midDir, MaxPreOut)
    /\ missing \in SUBSET {"gyroflow"}

NextStab ==
    \/ GyroflowMissing
    \/ StabilizeList
    \/ StabilizeSkip
    \/ StabilizeOk
    \/ StabilizeRaise
    \/ StabilizeReturn

SpecStab == InitStab /\ [][NextStab]_vars

\* stabilye.py, with or without --overwrite, on any source and target folder
InitStabilye ==
    /\ InitLocals!2
    /\ InitLocals!3
    /\ InitLocals!4
    /\ InitLocals!5
    /\ InitLocals!6
    /\ InitLocals!7
    /\ InitLocals!8
    /\ InitLocals!9
    /\ InitLocals!10
    /\ InitLocals!11
    /\ InitLocals!12
    /\ InitLocals!13
    /\ InitLocals!14
    /\ InitLocals!15
    /\ InitLocals!16
    /\ pc = "stabilye_main"
    /\ args_overwrite \in BOOLEAN
    /\ srcDir = <<>>
    /\ midDir \in Folders(StabNames, MaxStabFiles, {OldContent})
    /\ outDir \in LeftOutputs(midDir, MaxPreOut)
    /\ missing \in SUBSET {"source_folder", "gyroflow"}
    /\ ~Found("source_folder") => midDir = <<>>

NextStabilye ==
    \/ StabilyeLookupFails
    \/ StabilyeList
    \/ StabilizeOneReturns
    \/ StabilizeOneRaises
    \/ StabilyeReturn

SpecStabilye == InitStabilye /\ [][NextStabilye]_vars

-----------------------------------------------------------------------------
(* Claims about the sequence assembler (checked under SpecAsm) *)

\* get_footage_sequences has returned
Assembled == pc = "merge"

\* the files of the emitted sequences
EmittedFiles == UNION {Range(footage_sequences[k]) : k \in 1..Len(footage_sequences)}

\* the input files that are not Ignore
EligibleFiles == {f \in Range(files) : srcDir[f] <= max_limit}

\* the eligible files with no Terminal file at or after them in the list
TrailingFiles ==
    {files[k] : k \in {n \in 1..Len(files) :
                          /\ srcDir[files[n]] <= max_limit
                          /\ \A m \in n..Len(files) : srcDir[files[m]] > split_limit}}

\* C1: when get_footage_sequences returns, no file larger than max_limit is in
\* an emitted sequence, and the files of the emitted sequences are the files
\* not larger than max_limit except those left in the in-progress buffer, which
\* are the eligible files that follow the last Terminal file
C1_EmittedAreEligibleMinusTrailing ==
    Assembled =>
        /\ \A f \in EmittedFiles : ~(srcDir[f] > max_limit)
        /\ Range(parts) = TrailingFiles
        /\ EmittedFiles = EligibleFiles \ Range(parts)

\* an Ignore file lies between a Continuation file and the Terminal file that
\* ends its sequence, and a Continuation file is left over at the end
C1_Witness ==
    /\ Assembled
    /\ parts # <<>>
    /\ \E a, b, c \in 1..Len(files) :
          /\ a < b /\ b < c
          /\ srcDir[files[b]] > max_limit
          /\ \E k \in 1..Len(footage_sequences) :
                {files[a], files[c]} \subseteq Range(footage_sequences[k])

IsContinuation(f) == split_limit < srcDir[f] /\ srcDir[f] <= max_limit
IsTerminal(f) == srcDir[f] <= split_limit

\* C2: every emitted sequence is non-empty, each of its elements but the last
\* is a Continuation file, and its last element is a Terminal file or the
\* sequence has length 1
C2_SequenceShape ==
    \A k \in 1..Len(footage_files) :
        LET seq == footage_files[k]
        IN  /\ Len(seq) >= 1
            /\ \A j \in 1..(Len(seq) - 1) : IsContinuation(seq[j])
            /\ (IsTerminal(seq[Len(seq)]) \/ Len(seq) = 1)

\* two sequences were emitted, the second of three files
C2_Witness ==
    /\ Assembled
    /\ Len(footage_sequences) >= 2
    /\ Len(footage_sequences[2]) = 3

\* the places of file f in the emitted sequences
PlacesOf(f) ==
    {p \in UNION {{<<k, j>> : j \in 1..Len(footage_sequences[k])} :
                     k \in 1..Len(footage_sequences)} :
        footage_sequences[p[1]][p[2]] = f}

\* C3 as stated: each eligible file is at exactly one place of the emitted sequences
C3_Original ==
    Assembled => \A f \in EligibleFiles : Cardinality(PlacesOf(f)) = 1

\* C3, amended: no file is at two places of the emitted sequences (they are
\* pairwise disjoint and without repetition), and an eligible file is at
\* exactly one place unless it follows the last Terminal file, in which case
\* it is in no sequence
C3_DisjointExceptTrailing ==
    Assembled =>
        \A f \in Range(files) :
            Cardinality(PlacesOf(f)) =
                IF f \in EligibleFiles \ TrailingFiles THEN 1 ELSE 0

\* two sequences were emitted and an eligible file is in neither
C3_Witness ==
    /\ Assembled
    /\ Len(footage_sequences) >= 2
    /\ TrailingFiles # {}

\* what the loop body does to the buffer and to the emitted list under each
\* verdict, for the file it is at
VerdictEffect(verdict, file) ==
    IF verdict = "Ignore"
    THEN parts' = parts /\ footage_files' = footage_files
    ELSE IF verdict = "Continuation"
    THEN parts' = Append(parts, file) /\ footage_files' = footage_files
    ELSE parts' = <<>> /\ footage_files' = Append(footage_files, Append(parts, file))

\* the verdicts the three rules of the claim give to a size
RuleVerdicts(size) ==
    {v \in {"Ignore", "Continuation", "Terminal"} :
        \/ v = "Ignore" /\ size > max_limit
        \/ v = "Continuation" /\ split_limit < size /\ size <= max_limit
        \/ v = "Terminal" /\ size <= split_limit}

\* C16: for every file size exactly one of the three rules applies (above
\* max_limit Ignore, above split_limit up to max_limit Continuation, up to
\* split_limit Terminal), it is the verdict of the size tests, and the loop
\* body does to the buffer what that verdict says and nothing another verdict
\* says; a size equal to max_limit is Continuation, one equal to split_limit
\* is Terminal
C16_ClassifierTotalSingleValued ==
    /\ [](\A f \in DOMAIN srcDir :
            /\ Cardinality(RuleVerdicts(srcDir[f])) = 1
            /\ RuleVerdicts(srcDir[f]) = {classify(srcDir[f])})
    /\ [](\A f \in DOMAIN srcDir :
            /\ srcDir[f] = max_limit => classify(srcDir[f]) = "Continuation"
            /\ srcDir[f] = split_limit => classify(srcDir[f]) = "Terminal")
    /\ [][(pc = "assemble" /\ i <= Len(files)) =>
             \A v \in {"Ignore", "Continuation", "Terminal"} :
                 VerdictEffect(v, files[i]) <=> v \in RuleVerdicts(srcDir[files[i]])]_vars

\* a sequence was emitted whose first file has exactly max_limit bytes and
\* whose last file has exactly split_limit bytes, and a file of zero bytes
\* ended a sequence of its own
C16_Witness ==
    /\ Assembled
    /\ \E k \in 1..Len(footage_sequences) :
          LET seq == footage_sequences[k]
          IN  /\ Len(seq) >= 2
              /\ srcDir[seq[1]] = max_limit
              /\ srcDir[seq[Len(seq)]] = split_limit
    /\ \E k \in 1..Len(footage_sequences) :
          footage_sequences[k] \in {<<f>> : f \in {g \in DOMAIN srcDir : srcDir[g] = 0}}

\* file f is not Ignore
NotIgnored(f) == srcDir[f] <= max_limit

\* C17: an Ignore file changes neither the buffer nor the emitted list, so at
\* every point of the loop the buffer and the emitted list are those the loop
\* reaches on the files seen so far with the Ignore files removed, and the
\* sequences returned are those returned for the list without its Ignore files
C17_IgnoredFilesAreTransparent ==
    /\ [][(pc = "assemble" /\ i <= Len(files) /\ ~NotIgnored(files[i])) =>
             UNCHANGED <<parts, footage_files>>]_vars
    /\ [](pc = "assemble" =>
            LET seen == SelectSeq(SubSeq(files, 1, i - 1), NotIgnored)
                r == AssembleList(seen, <<>>, <<>>)
            IN  parts = r.parts /\ footage_files = r.footage_files)
    /\ [](Assembled =>
            footage_sequences = get_footage_sequences(SelectSeq(files, NotIgnored)))

\* a Continuation file, then two Ignore files, then a Terminal file: the first
\* and the last are one emitted sequence
C17_Witness ==
    /\ Assembled
    /\ Len(files) >= 4
    /\ \E a \in 1..(Len(files) - 3) :
          /\ IsContinuation(files[a])
          /\ ~NotIgnored(files[a + 1])
          /\ ~NotIgnored(files[a + 2])
          /\ IsTerminal(files[a + 3])
          /\ \E k \in 1..Len(footage_sequences) :
                footage_sequences[k] = <<files[a], files[a + 3]>>

-----------------------------------------------------------------------------
(* Claims about the merge stage (checked under SpecMerge) *)

\* merge_sequences was ended by the exception of format_dji_filename
MergeAborted == pc = "aborted" /\ abortReason = "IndexError"

\* merge_sequences has returned or was ended by an exception
MergeEnded == pc \notin {"main", "assemble", "merge"}

\* the output of every assembled sequence was in the merged folder before the
\* run (a file the run wrote is not OldContent)
AllOutputsPreexist ==
    \A k \in 1..Len(footage_sequences) :
        /\ ~format_dji_filename(footage_sequences[k][1]).raised
        /\ output_filename_of(footage_sequences[k][1]) \in DOMAIN midDir
        /\ midDir[output_filename_of(footage_sequences[k][1])] = OldContent

AllSkipped ==
    /\ Len(outcomes) = Len(footage_sequences)
    /\ \A k \in 1..Len(outcomes) :
          /\ outcomes[k].seq = footage_sequences[k]
          /\ outcomes[k].result = "Skipped"

\* a step of the merge loop at a sequence whose output path exists changes no
\* folder, invokes nothing, renames nothing and records Skipped
ExistingOutputIsSkipped ==
    (InMergeLoop /\ ~CurName.raised /\ CurOut \in DOMAIN midDir) =>
        /\ UNCHANGED <<srcDir, midDir, engineCalls, renames>>
        /\ outcomes' = Append(outcomes, Outcome(CurSeq, CurOut, "Skipped"))

\* C4: a run of merge_sequences that finds the output of every sequence in
\* the merged folder invokes the engine zero times, renames nothing and skips
\* every sequence; and whenever the output path of the sequence being
\* processed exists, that sequence is skipped and nothing is written
C4_ExistingOutputsNeverRemerged ==
    /\ [](pc = "stabilize_list" /\ AllOutputsPreexist =>
             engineCalls = <<>> /\ renames = <<>> /\ AllSkipped)
    /\ [][ExistingOutputIsSkipped]_vars

\* a finished run over two sequences with different outputs, both found
C4_Witness ==
    /\ pc = "stabilize_list"
    /\ AllOutputsPreexist
    /\ Len(footage_sequences) >= 2
    /\ outcomes[1].out # outcomes[2].out
    /\ Len(outcomes[2].seq) >= 2
    /\ AllSkipped

\* C5 as stated: every processed single-segment sequence was relocated
C5_Original ==
    \A k \in 1..Len(outcomes) :
        Len(outcomes[k].seq) = 1 => outcomes[k].result = "Moved"

\* the rename of the single file of seq to out has been made and holds
Relocated(seq, out) ==
    /\ \E r \in 1..Len(renames) :
          renames[r] = [from |-> Path("source", seq[1]), to |-> Path("merged", out)]
    /\ out \in DOMAIN midDir
    /\ midDir[out] = [kind |-> "segment", from |-> seq]
    /\ seq[1] \notin DOMAIN srcDir

\* a step of the merge loop at a single-segment sequence: no engine
\* invocation; a rename exactly when the output path does not exist
SingleSegmentStep ==
    (InMergeLoop /\ Len(CurSeq) = 1) =>
        /\ engineCalls' = engineCalls
        /\ CurName.raised => UNCHANGED <<srcDir, midDir, renames, outcomes>>
        /\ (~CurName.raised /\ CurOut \in DOMAIN midDir) =>
              /\ UNCHANGED <<srcDir, midDir, renames>>
              /\ outcomes' = Append(outcomes, Outcome(CurSeq, CurOut, "Skipped"))
        /\ (~CurName.raised /\ CurOut \notin DOMAIN midDir) =>
              /\ outcomes' = Append(outcomes, Outcome(CurSeq, CurOut, "Moved"))
              /\ renames' = Append(renames, [from |-> Path("source", CurSeq[1]),
                                             to |-> Path("merged", CurOut)])
              /\ CurOut = format_dji_filename(CurSeq[1]).value \o ExtLowerMp4
              /\ midDir'[CurOut] = [kind |-> "segment", from |-> CurSeq]
              /\ CurSeq[1] \notin DOMAIN srcDir'

\* C5, amended: a single-segment sequence never causes an engine invocation;
\* it is relocated to merged/(identity + ".mp4") when that path does not
\* exist as it is processed, and then its content stays at the output path
\* and is gone from the source path; when the path exists it is Skipped and
\* its file stays in the source folder
C5_SingleSegmentMovedOrSkipped ==
    /\ [](/\ \A c \in 1..Len(engineCalls) : Len(engineCalls[c].inputs) >= 2
          /\ \A k \in 1..Len(outcomes) :
                Len(outcomes[k].seq) = 1 =>
                    /\ outcomes[k].result \in {"Moved", "Skipped"}
                    /\ outcomes[k].result = "Moved" =>
                          Relocated(outcomes[k].seq, outcomes[k].out)
                    /\ outcomes[k].result = "Skipped" =>
                          outcomes[k].seq[1] \in DOMAIN srcDir)
    /\ [][SingleSegmentStep]_vars

\* one single-segment sequence was relocated and a later one skipped
C5_Witness ==
    \E k, m \in 1..Len(outcomes) :
        /\ k < m
        /\ Len(outcomes[k].seq) = 1 /\ outcomes[k].result = "Moved"
        /\ Relocated(outcomes[k].seq, outcomes[k].out)
        /\ Len(outcomes[m].seq) = 1 /\ outcomes[m].result = "Skipped"

\* C6 as stated: once an engine invocation has failed, the stage still
\* completes, with every sequence of the batch processed in emission order
C6_Original ==
    (MergeEnded /\ \E k \in 1..Len(outcomes) : outcomes[k].result = "Failed") =>
        /\ ~MergeAborted
        /\ Len(outcomes) = Len(footage_sequences)
        /\ \A k \in 1..Len(outcomes) : outcomes[k].seq = footage_sequences[k]

\* C7 as stated: when the stage has ended, every sequence after one whose
\* first name has no timestamp field has been processed
C7_Original ==
    MergeEnded =>
        \A k \in 1..Len(footage_sequences) :
            format_dji_filename(footage_sequences[k][1]).raised =>
                \A m \in (k + 1)..Len(footage_sequences) :
                    \E o \in 1..Len(outcomes) : outcomes[o].seq = footage_sequences[m]

\* the timestamp field of a name: its second '_'-separated field, if any
TimestampField(name) ==
    IF Len(split(name, "_")) < 2 THEN <<>> ELSE split(name, "_")[2]

\* C8 as stated: no output path is built for a sequence whose first name has
\* no timestamp field or one of fewer than 12 characters
C8_Original ==
    \A k \in 1..Len(outcomes) : Len(TimestampField(outcomes[k].seq[1])) >= 12

\* 'YYYY.MM.DD HH.MM' made of the first 12 characters of timestamp field ts
Stamped(ts) ==
    <<ts[1], ts[2], ts[3], ts[4], ".", ts[5], ts[6], ".", ts[7], ts[8], " ",
      ts[9], ts[10], ".", ts[11], ts[12]>>

\* the loop is at a sequence of two or more files whose output path does not
\* exist, and merge_mp4 finds the engine
AtSequenceToMerge ==
    /\ InMergeLoop
    /\ ~CurName.raised
    /\ Len(CurSeq) >= 2
    /\ CurOut \notin DOMAIN midDir
    /\ Found("mp4-merge")

\* the engine invocations whose inputs are the files of seq in the order of seq
EngineCallsOf(seq) ==
    {c \in 1..Len(engineCalls) :
        engineCalls[c].inputs = [k \in 1..Len(seq) |-> <<"source", seq[k]>>]}

WrittenNow ==
    {renames'[r].to[2] : r \in (Len(renames) + 1)..Len(renames')}
        \cup {engineCalls'[c].out[2] : c \in (Len(engineCalls) + 1)..Len(engineCalls')}

\* C19: no step renames onto, or passes to the merge engine as output, a path
\* that exists when the step is taken, and no file of the merged folder is
\* ever replaced or removed; when two sequences of a run have the same output
\* name and the earlier one was moved or merged, the later one is Skipped, has
\* no engine invocation, its files are still in the source folder, and the
\* merged folder still holds the earlier one's file
C19_ExistingOutputNeverOverwritten ==
    /\ [][WrittenNow \cap DOMAIN midDir = {}]_vars
    /\ [][\A f \in DOMAIN midDir :
             f \in DOMAIN midDir' /\ midDir'[f] = midDir[f]]_vars
    /\ [](\A k, m \in 1..Len(outcomes) :
            (/\ k < m
             /\ outcomes[k].out = outcomes[m].out
             /\ outcomes[k].result \in {"Moved", "Merged"}) =>
                /\ outcomes[m].result = "Skipped"
                /\ EngineCallsOf(outcomes[m].seq) = {}
                /\ Range(outcomes[m].seq) \subseteq DOMAIN srcDir
                /\ \A r \in 1..Len(renames) :
                      renames[r].from[2] \notin Range(outcomes[m].seq)
                /\ midDir[outcomes[k].out].from = outcomes[k].seq)

\* a single file was moved to '2025.01.01 12.00.mp4', and a later sequence of
\* two files with the same output name was skipped
C19_Witness ==
    \E k, m \in 1..Len(outcomes) :
        /\ k < m
        /\ outcomes[k].out = outcomes[m].out
        /\ outcomes[k].result = "Moved"
        /\ outcomes[m].result = "Skipped"
        /\ Len(outcomes[m].seq) >= 2

-----------------------------------------------------------------------------
(* Claims about consecutive runs of the merge stage (checked under SpecRerun) *)

\* the run before this one made no engine invocation that failed: each one
\* exited 0 and left its output file
CleanPrior ==
    /\ prior # <<>>
    /\ \A o \in 1..Len(prior[Len(prior)].outcomes) :
          prior[Len(prior)].outcomes[o].result # "Failed"

\* C20: in a run of merge_sequences that follows a run in which no engine
\* invocation failed, over the folders as that run left them, the merge engine
\* is not invoked, no file is renamed, every sequence that is processed is
\* Skipped, and the source and merged folders stay as they are
C20_SecondRunChangesNothing ==
    /\ [](CleanPrior =>
            /\ engineCalls = <<>>
            /\ renames = <<>>
            /\ \A o \in 1..Len(outcomes) : outcomes[o].result = "Skipped")
    /\ [][CleanPrior => UNCHANGED <<srcDir, midDir>>]_vars

\* the first run merged a two-file sequence and moved a single file; the
\* second run has returned after meeting the two-file sequence again
C20_Witness ==
    /\ Len(prior) = 1
    /\ pc = "stabilize_list"
    /\ \E o \in 1..Len(prior[1].outcomes) : prior[1].outcomes[o].result = "Merged"
    /\ \E o \in 1..Len(prior[1].outcomes) : prior[1].outcomes[o].result = "Moved"
    /\ \A o \in 1..Len(prior[1].outcomes) : prior[1].outcomes[o].result # "Failed"
    /\ \E o \in 1..Len(outcomes) : Len(outcomes[o].seq) >= 2

-----------------------------------------------------------------------------
(* Claims about the stabilize stage (checked under SpecStab) *)

\* stabilize_footage has returned or was ended by an exception
StabilizeEnded ==
    pc = "done" \/ (pc = "aborted" /\ abortReason \in {"CalledProcessError", "RuntimeError"})

\* the engine invocations made for file f
CallsFor(f) == {c \in 1..Len(stabCalls) : stabCalls[c].file = f}

\* C9 as stated: when the stage has ended, every listed file has been
\* processed, with at most one engine invocation each, whichever invocations
\* failed
C9_Original ==
    StabilizeEnded =>
        /\ \A k \in 1..Len(source_files) :
              \E o \in 1..Len(stabOutcomes) : stabOutcomes[o].file = source_files[k]
        /\ \A f \in Range(source_files) : Cardinality(CallsFor(f)) <= 1

\* the engine exited 0 and left no output file, or an empty one
IncompleteRun(run) == run.exit = "ok" /\ run.out \in {"absent", "empty"}

\* C10: after an engine invocation that exits 0 without a non-empty output
\* file, the outcome of that file is Failed(IncompleteOutput) (stabilize_file
\* raised RuntimeError) and never Stabilized; a zero-byte '<output>.tmp' is
\* gone, and a non-empty one is still there
C10_IncompleteOutputFails ==
    \A c \in 1..Len(stabCalls) :
        IncompleteRun(stabCalls[c].run) =>
            LET f == stabCalls[c].file
                tmp == f \o ExtTmp
            IN  /\ \A o \in 1..Len(stabOutcomes) :
                      stabOutcomes[o].file = f =>
                          stabOutcomes[o].result = "Failed(IncompleteOutput)"
                /\ \E o \in 1..Len(stabOutcomes) : stabOutcomes[o].file = f
                /\ abortReason = "RuntimeError"
                /\ stabCalls[c].run.tmp = "empty" => tmp \notin DOMAIN outDir
                /\ stabCalls[c].run.tmp = "full" =>
                      (tmp \in DOMAIN outDir /\ outDir[tmp] = "full")

\* the engine exited 0 leaving a zero-byte output and a zero-byte '.tmp', for
\* the second file of the list
C10_Witness ==
    /\ Len(stabCalls) >= 1
    /\ Len(stabOutcomes) >= 2
    /\ LET run == stabCalls[Len(stabCalls)].run
       IN  run.exit = "ok" /\ run.out = "empty" /\ run.tmp = "empty"
    /\ stabOutcomes[Len(stabOutcomes)].result = "Failed(IncompleteOutput)"

\* C11 as stated: an item that ended as Failed(IncompleteOutput) leaves no
\* file of its name in the stabilized folder (the file whose existence makes
\* the next run skip it), and every skipped item has a non-empty output file
C11_Original ==
    /\ \A o \in 1..Len(stabOutcomes) :
          stabOutcomes[o].result = "Failed(IncompleteOutput)" =>
              stabOutcomes[o].file \notin DOMAIN outDir
    /\ \A o \in 1..Len(stabOutcomes) :
          stabOutcomes[o].result = "Skipped" =>
              outDir[stabOutcomes[o].file] = "full"

\* C14: when the loop reaches a listed file whose same-named output exists in
\* the stabilized folder, the step it takes records Skipped for that file,
\* invokes no engine and leaves the stabilized folder (the output and any
\* '.tmp' artifact) as it is; a skipped file never has an engine invocation
C14_ExistingOutputLeftAlone ==
    /\ [][(InStabLoop /\ CurFile \in DOMAIN outDir) =>
             /\ stabOutcomes' = Append(stabOutcomes, StabOutcome(CurFile, "Skipped"))
             /\ sidx' = sidx + 1
             /\ UNCHANGED <<outDir, stabCalls, midDir, pc>>]_vars
    /\ [](\A o \in 1..Len(stabOutcomes) :
             stabOutcomes[o].result = "Skipped" => CallsFor(stabOutcomes[o].file) = {})

\* a file is skipped whose output and '.tmp' artifact were both there, and
\* both are still there in the state they had
C14_Witness ==
    \E o \in 1..Len(stabOutcomes) :
        LET f == stabOutcomes[o].file
            tmp == tmp_output_path(f)
        IN  /\ stabOutcomes[o].result = "Skipped"
            /\ f \in DOMAIN outDir /\ outDir[f] = "full"
            /\ tmp \in DOMAIN outDir /\ outDir[tmp] = "empty"

-----------------------------------------------------------------------------
(* Claims about the whole pipeline (checked under Spec) *)

\* merge_sequences has processed every sequence of the batch and returned
MergeFinished ==
    /\ pc \in {"stabilize_list", "stabilize", "done", "aborted"}
    /\ idx > Len(footage_sequences)
    /\ Len(outcomes) = Len(footage_sequences)

\* stabilize_footage has not listed, tested or stabilized anything
StabilizeNotStarted ==
    /\ source_files = <<>>
    /\ sidx = 1
    /\ stabOutcomes = <<>>
    /\ stabCalls = <<>>

\* C12: no step of the stabilize stage (listing, existence test, engine
\* invocation) happens before the merge stage has processed every sequence,
\* and once the stabilize stage has taken a step the merge stage takes none:
\* the assembler, the merge loop and the source and merged folders stay as
\* they are
C12_StagesNotInterleaved ==
    /\ [](~StabilizeNotStarted => MergeFinished)
    /\ [][(stabVars' # stabVars \/ outDir' # outDir) =>
             /\ MergeFinished
             /\ UNCHANGED <<srcDir, midDir, asmVars, mergeVars>>]_vars
    /\ [][(mergeVars' # mergeVars \/ asmVars' # asmVars
             \/ srcDir' # srcDir \/ midDir' # midDir) =>
             StabilizeNotStarted /\ StabilizeNotStarted']_vars

\* a run that merged a two-file sequence and then invoked the stabilization
\* engine on the merged recording
C12_Witness ==
    /\ pc = "done"
    /\ \E k \in 1..Len(outcomes) : outcomes[k].result = "Merged"
    /\ \E c \in 1..Len(stabCalls) :
          \E k \in 1..Len(outcomes) :
              outcomes[k].result = "Merged" /\ stabCalls[c].file = outcomes[k].out

\* the run was ended by a tool or a folder that could not be found
NotFoundAbort == pc = "aborted" /\ abortReason = "FileNotFoundError"

\* C13 as stated: a run that ends because the merge engine, the stabilization
\* engine or the source folder was not found has renamed no segment, invoked
\* no merge and no stabilization, and created no file in the merged folder
C13_Original ==
    NotFoundAbort =>
        /\ renames = <<>>
        /\ engineCalls = <<>>
        /\ stabCalls = <<>>
        /\ \A f \in DOMAIN midDir : midDir[f] = OldContent

\* the files the merge stage of this run merged or moved into the merged folder
Produced ==
    {outcomes[k].out : k \in {n \in 1..Len(outcomes) :
                                 outcomes[n].result \in {"Moved", "Merged"}}}

\* file f was considered by the stabilize stage: it has one outcome, which is
\* Skipped with its output in the stabilized folder and no engine invocation,
\* or comes with exactly one engine invocation
Considered(f) ==
    /\ Cardinality({o \in 1..Len(stabOutcomes) : stabOutcomes[o].file = f}) = 1
    /\ \A o \in 1..Len(stabOutcomes) :
          stabOutcomes[o].file = f =>
              IF stabOutcomes[o].result = "Skipped"
              THEN f \in DOMAIN outDir /\ CallsFor(f) = {}
              ELSE Cardinality(CallsFor(f)) = 1

\* C18: the files merged or moved by the merge stage of a run are all in the
\* list the stabilize stage of that run works on; when the stage has returned
\* each of them was considered, and when an invocation ended the stage each of
\* them listed up to the failing file was
C18_ProducedFilesAreConsidered ==
    /\ pc \in {"stabilize", "done"} => Produced \subseteq Range(source_files)
    /\ pc = "done" => \A f \in Produced : Considered(f)
    /\ StabilizeEnded =>
          /\ Produced \subseteq Range(source_files)
          /\ \A p \in 1..Len(stabOutcomes) :
                /\ stabOutcomes[p].file = source_files[p]
                /\ source_files[p] \in Produced => Considered(source_files[p])

\* a run moved two recordings into the merged folder; its stabilize stage
\* skipped the one whose output existed and invoked the engine for the other
C18_Witness ==
    /\ pc = "done"
    /\ \E f, g \in Produced :
          /\ f # g
          /\ \E o \in 1..Len(stabOutcomes) :
                stabOutcomes[o].file = f /\ stabOutcomes[o].result = "Skipped"
          /\ \E o \in 1..Len(stabOutcomes) :
                stabOutcomes[o].file = g /\ stabOutcomes[o].result = "Stabilized"
          /\ Cardinality(CallsFor(g)) = 1

-----------------------------------------------------------------------------
(* Claims about stabilize_one (checked under SpecStabilye) *)

\* C21 as stated: a call of stabilize_one on a file whose output path holds a
\* non-empty file leaves a non-empty file at that path, whatever the overwrite
\* flag and whatever the engine does
C21_Original ==
    [][(InStabilyeLoop /\ CurFile \in DOMAIN outDir /\ outDir[CurFile] = "full") =>
          (CurFile \in DOMAIN outDir' /\ outDir'[CurFile] = "full")]_vars

====
